---- MODULE Spec2Model ----
(***************************************************************************)
(* State-machine model of the extrinsic self-calibration front-end         *)
(* (self_multicam_calibration_node.cpp): the configuration parser          *)
(* parseTokenFromString / parseConfigFile and the control flow of main,    *)
(* and of the windowed bundle adjuster's keyframe / landmark bookkeeping   *)
(* (gcam_slam), whose sources are not part of the excerpt.                 *)
(*                                                                         *)
(* Strings are sequences of one-character strings, so that find, substr,   *)
(* erase and getline act on characters as the C++ library does.            *)
(***************************************************************************)
EXTENDS Integers, Sequences, FiniteSets, TLC

\* ------------------------------------------------------------------------
\* Bounds of the model
\* ------------------------------------------------------------------------

\* the largest number of lines of a generated configuration file
MaxLines == 3

\* the largest number of image messages a replay republishes
MaxImages == 4

\* the largest number of IMU messages a replay buffers
MaxImu == 1

\* keyframes and landmarks ever created, the largest configured window
\* bound, pose-graph corrections applied
MaxKeyframes == 4
MaxLandmarks == 3
MaxWindowBound == 2
MaxCorrections == 1

\* the IMU messages of a replay that overruns the IMU buffer
MaxImuRun == 52

\* the largest relocalization retry budget, the frames the orchestrator
\* waits for its initial triangulation, the capacity of the loop
\* recognizer's queue
MaxRetryBudget == 2
MaxInitFrames == 2
LoopQueueCapacity == 2

\* ------------------------------------------------------------------------
\* Characters and strings
\* ------------------------------------------------------------------------

SP == " "
NL == "LF"

UpperChars == <<"A","B","C","D","E","F","G","H","I","J","K","L","M",
                "N","O","P","Q","R","S","T","U","V","W","X","Y","Z">>
LowerChars == <<"a","b","c","d","e","f","g","h","i","j","k","l","m",
                "n","o","p","q","r","s","t","u","v","w","x","y","z">>

\* std::tolower in the C locale, as boost::iequals applies it per character
ToLower(c) ==
    IF \E i \in 1..Len(UpperChars) : UpperChars[i] = c
    THEN LowerChars[CHOOSE i \in 1..Len(UpperChars) : UpperChars[i] = c]
    ELSE c

\* boost::iequals(a, b): equal length and equal characters up to case
iequals(a, b) ==
    /\ Len(a) = Len(b)
    /\ \A i \in 1..Len(a) : ToLower(a[i]) = ToLower(b[i])

KwStereo == <<"s","t","e","r","e","o">>
KwMono   == <<"m","o","n","o">>
KwImu    == <<"i","m","u">>

Min(a, b) == IF a < b THEN a ELSE b

\* size_t arithmetic is modular.  The model keeps the modulus explicit but
\* narrows it (every string of the model is far shorter than SIZE_MOD - 1).
SIZE_MOD == 256
npos == SIZE_MOD - 1

\* std::string::find(" "): 0-based index of the first occurrence, else npos
find(s, c) ==
    IF \E i \in 1..Len(s) : s[i] = c
    THEN (CHOOSE i \in 1..Len(s) : s[i] = c /\ \A j \in 1..(i - 1) : s[j] # c) - 1
    ELSE npos

\* std::string::substr(0, count): the first min(count, size) characters
substr(s, count) == SubSeq(s, 1, Min(count, Len(s)))

\* std::string::erase(0, count): drops the first min(count, size) characters
erase(s, count) == SubSeq(s, Min(count, Len(s)) + 1, Len(s))

\* the mutant of parseTokenFromString that never consumes the token
parseTokenFromString_keep(s, token) ==
    IF s = <<>>
    THEN [ok |-> FALSE, s |-> s, token |-> token]
    ELSE [ok |-> TRUE, s |-> s, token |-> substr(s, find(s, SP))]

\* parseTokenFromString(s, token, pos): false on an empty s (token untouched);
\* otherwise token = s.substr(0, pos) and s.erase(0, pos + 1), pos + 1 taken
\* in size_t, so that npos + 1 is 0.
parseTokenFromString(s, token) ==
    IF s = <<>>
    THEN [ok |-> FALSE, s |-> s, token |-> token]
    ELSE LET pos == find(s, SP)
         IN  [ok    |-> TRUE,
              token |-> substr(s, pos),
              s     |-> erase(s, (pos + 1) % SIZE_MOD)]

\* std::getline(ifs, s) on the unread characters: the line up to the next
\* newline (which is consumed); with no newline left, the rest of the
\* stream, and the stream is no longer good().
getline(st) ==
    LET p == find(st, NL)
    IN  IF p # npos
        THEN [s |-> SubSeq(st, 1, p), rest |-> SubSeq(st, p + 2, Len(st)), good |-> TRUE]
        ELSE [s |-> st, rest |-> <<>>, good |-> FALSE]

\* ------------------------------------------------------------------------
\* ROS_ERROR / ROS_WARN texts
\* ------------------------------------------------------------------------

ErrStereo    == "The stereo camera sensor is improperly defined."
ErrMono      == "The mono camera sensor is improperly defined."
ErrDupImu    == "A duplicate definition was found for the imu sensor."
ErrImu       == "The IMU sensor is improperly defined."
ErrUnknown   == "Unknown sensor type"
ErrConfig    == "Failed to read configuration file"
ErrBag       == "Unable to open bag file"
ErrInterm    == "Failed to read intermediate camera extrinsic file."
ErrScInit    == "Failed to initialize extrinsic calibration."
ErrAborted   == "Aborted."
ErrCvBridge  == "cv_bridge exception"
WarnNoImu    == "No IMU message with matching timestamp."


\* ------------------------------------------------------------------------
\* Inputs: configuration files
\* ------------------------------------------------------------------------

RECURSIVE Join(_, _)
\* the tokens of a line, joined by single spaces
Join(toks, sep) ==
    IF Len(toks) = 0 THEN <<>>
    ELSE IF Len(toks) = 1 THEN toks[1]
    ELSE toks[1] \o <<sep>> \o Join(Tail(toks), sep)

\* the lines configuration files are assembled from: well-formed
\* declarations (in either case), declarations with too few topics, with a
\* trailing or a leading space, an unknown sensor type, and the empty line
LinePool ==
    { <<>>,
      Join(<<KwStereo, <<"a">>, <<"b">>>>, SP),
      Join(<<<<"S","t","e","r","e","o">>, <<"c">>, <<"d">>>>, SP),
      Join(<<KwStereo, <<"a">>>>, SP),
      Join(<<KwStereo, <<"a">>, <<>>>>, SP),
      Join(<<KwMono, <<"c">>>>, SP),
      KwMono,
      Join(<<KwImu, <<"i">>>>, SP),
      Join(<<<<"I","M","U">>, <<"j">>>>, SP),
      KwImu,
      Join(<<KwImu, <<>>>>, SP),
      Join(<<<<"f","o","o">>, <<"a">>>>, SP),
      Join(<<<<>>, KwStereo, <<"a">>, <<"b">>>>, SP) }

RECURSIVE SeqsUpTo(_, _)
\* all sequences over S of length at most n
SeqsUpTo(S, n) ==
    IF n = 0 THEN {<<>>}
    ELSE LET shorter == SeqsUpTo(S, n - 1)
         IN  shorter \cup {Append(q, x) : q \in shorter, x \in S}

\* a file's text: its lines separated by newlines, with or without a
\* newline after the last line
FileText(lines, trailingNL) ==
    Join(lines, NL) \o (IF trailingNL /\ Len(lines) > 0 THEN <<NL>> ELSE <<>>)

ConfigFiles == {FileText(ls, t) : ls \in SeqsUpTo(LinePool, MaxLines), t \in BOOLEAN}

\* what the caller's cameraNs and imuTopicName may hold before the call
PriorContents ==
    { [cameraNs |-> <<>>, imuTopicName |-> <<>>],
      [cameraNs |-> <<<<<<"x">>>>>>, imuTopicName |-> <<"y">>] }

\* ------------------------------------------------------------------------
\* State
\* ------------------------------------------------------------------------

VARIABLES
    configExists,   \* the file named by configFilename can be opened
    configFile,     \* its text (input; never written)
    stream,         \* ifs: the characters not yet read
    good,           \* ifs.good()
    hasStereo,
    hasIMU,
    cameraNs,       \* std::vector<std::vector<std::string> >
    imuTopicName,
    ppc,            \* position in parseConfigFile: "entry", "loop", "done"
    ret,            \* parseConfigFile's return value ("none" until it returns)
    rosLog          \* the ROS_ERROR texts logged so far, in order

parseVars == <<configExists, configFile, stream, good, hasStereo, hasIMU,
               cameraNs, imuTopicName, ppc, ret, rosLog>>

VARIABLES
    pc,                     \* position in main
    readIntermediateData,   \* the --intermediate switch (input)
    rosOk,                  \* ros::ok()
    nCams,
    bagOpened,
    camInfoTopicNames,
    camImageTopicNames,
    init,                   \* boost::dynamic_bitset<> init(N_CAMERAS): the set bits
    cameras,                \* std::vector<px::CameraPtr>, "null" or a camera
    camPose,                \* cameraSystem's global camera poses
    camSet,                 \* cameraSystem's camera slots, as setCamera filled them
    sc,                     \* the calibration object: "null" or "ready"
    nCallbacks,             \* callbacks registered with the synchronizer
    imuBuffer,
    tuples,                 \* the synchronizer's incomplete image sets, by stamp
    processed,              \* the calls of sc->processFrames, in order
    nPublished,             \* images republished on imagePubs
    nImu,                   \* IMU messages buffered so far
    ub,                     \* an operation with undefined behaviour was executed
    scRun,                  \* whether sc->run was called, and its last argument
    calibWritten,           \* cameraSystem->writeToDirectory was called
    infoRequests,           \* SetCameraInfo requests sent
    posesWritten,           \* sc->writePosesToTextFile was called
    unmatched               \* stamps of the image sets voCallback returned on
                            \* without an IMU message (line 167)

mainVars == <<pc, readIntermediateData, rosOk, nCams, bagOpened,
              camInfoTopicNames, camImageTopicNames, init, cameras, camPose,
              camSet, sc, nCallbacks, imuBuffer, tuples, processed, nPublished,
              nImu, ub, scRun, calibWritten, infoRequests, posesWritten,
              unmatched>>

\* the SLAM back-end (gcam_slam): the keyframe / landmark store and the
\* bundle adjuster's window
VARIABLES
    store,          \* keyframes, landmarks and the two observation relations
    window,         \* the window's keyframes, oldest first
    windowBound,    \* the configured bound of the window
    evictPolicy,    \* what eviction does with a landmark: "freeze" or "discard"
    corrections,    \* pose-graph corrections applied so far
    lastEvict       \* the last eviction: what it released, what was still observed

\* the SLAM back-end: the orchestrator and the queues to the two workers
VARIABLES
    orchState,      \* "UNINITIALIZED", "TRACKING", "RELOCALIZING" or "FAILED"
    initFrames,     \* frames spent without an initial triangulation
    relocFailures,  \* failed attempts of the current relocalization
    retryBudget,    \* the configured bound on them
    nPromoted,      \* keyframes promoted so far; they are numbered from 1
    baQueue,        \* finalized keyframes waiting for bundle adjustment
    loopQueue,      \* finalized keyframes waiting for loop recognition
    baSeen,         \* the keyframes the bundle-adjustment worker has taken
    loopSeen,       \* the keyframes the loop worker has taken
    loopDropped,    \* the drops of the loop queue, each with what justified it
    stopping        \* session teardown has been signalled

orchVars == <<orchState, initFrames, relocFailures, retryBudget, nPromoted,
              baQueue, loopQueue, baSeen, loopSeen, loopDropped, stopping>>

slamVars == <<store, window, windowBound, evictPolicy, corrections, lastEvict,
              orchVars>>

vars == <<parseVars, mainVars, slamVars>>

\* ------------------------------------------------------------------------
\* parseConfigFile
\* ------------------------------------------------------------------------

\* the locals and out-parameters a loop iteration may write
ParseState == [cameraNs |-> cameraNs, imuTopicName |-> imuTopicName,
               hasStereo |-> hasStereo, hasIMU |-> hasIMU]

Continue(p) == [fail |-> FALSE, err |-> "", p |-> p]
Fail(p, e)  == [fail |-> TRUE, err |-> e, p |-> p]

\* mutant of stereoBranch: records the right topic before the left one
stereoBranch_swapped(p, s) ==
    LET l == parseTokenFromString(s, <<>>)
        r == parseTokenFromString(l.s, <<>>)
    IN  IF ~l.ok \/ ~r.ok THEN Fail(p, ErrStereo)
        ELSE Continue([p EXCEPT !.cameraNs = Append(@, <<r.token, l.token>>),
                                !.hasStereo = TRUE])

\* lines 75-97: the stereo branch; s is the line after its first token
stereoBranch(p, s) ==
    LET l == parseTokenFromString(s, <<>>)
        r == parseTokenFromString(l.s, <<>>)
    IN  IF ~l.ok THEN Fail(p, ErrStereo)
        ELSE IF ~r.ok THEN Fail(p, ErrStereo)
        ELSE Continue([p EXCEPT !.cameraNs = Append(@, <<l.token, r.token>>),
                                !.hasStereo = TRUE])

\* lines 98-110: the mono branch
monoBranch(p, s) ==
    LET t == parseTokenFromString(s, <<>>)
    IN  IF ~t.ok THEN Fail(p, ErrMono)
        ELSE Continue([p EXCEPT !.cameraNs = Append(@, <<t.token>>)])

\* mutant of imuBranch: no duplicate check, a later declaration overwrites
imuBranch_noDupCheck(p, s) ==
    LET t == parseTokenFromString(s, p.imuTopicName)
    IN  IF ~t.ok THEN Fail(p, ErrImu)
        ELSE Continue([p EXCEPT !.imuTopicName = t.token, !.hasIMU = TRUE])

\* mutant of imuBranch: a duplicate declaration is passed over, the first
\* one stands and the loop continues
imuBranch_keepFirst(p, s) ==
    LET t == parseTokenFromString(s, p.imuTopicName)
    IN  IF p.hasIMU THEN Continue(p)
        ELSE IF ~t.ok THEN Fail(p, ErrImu)
        ELSE Continue([p EXCEPT !.imuTopicName = t.token, !.hasIMU = TRUE])

\* lines 111-126: the imu branch; the token is parsed into imuTopicName itself
imuBranch(p, s) ==
    LET t == parseTokenFromString(s, p.imuTopicName)
    IN  IF p.hasIMU THEN Fail(p, ErrDupImu)
        ELSE IF ~t.ok THEN Fail(p, ErrImu)
        ELSE Continue([p EXCEPT !.imuTopicName = t.token, !.hasIMU = TRUE])

\* mutant of unknownBranch: the line is skipped
unknownBranch_skip(p, s) == Continue(p)

\* lines 127-131: any other first token
unknownBranch(p, s) == Fail(p, ErrUnknown)

\* mutant of parseResult: the imu declaration is not required
parseResult_stereoOnly(stereo, imu) == stereo

\* lines 134-139: the return value once the stream is exhausted
parseResult(stereo, imu) == ~(~stereo \/ ~imu)

\* applies a loop iteration's outcome: continue, or log and return false
Apply(o) ==
    /\ cameraNs' = o.p.cameraNs
    /\ imuTopicName' = o.p.imuTopicName
    /\ hasStereo' = o.p.hasStereo
    /\ hasIMU' = o.p.hasIMU
    /\ IF o.fail
       THEN /\ rosLog' = Append(rosLog, o.err)
            /\ ret' = FALSE
            /\ ppc' = "done"
       ELSE UNCHANGED <<rosLog, ret, ppc>>

\* lines 44-55: clear the outputs, open the file
ParseOpen ==
    /\ ppc = "entry"
    /\ hasStereo' = FALSE
    /\ hasIMU' = FALSE
    /\ cameraNs' = <<>>
    /\ imuTopicName' = <<>>
    /\ IF configExists
       THEN /\ stream' = configFile
            /\ good' = TRUE
            /\ ppc' = "loop"
            /\ UNCHANGED ret
       ELSE /\ ret' = FALSE
            /\ ppc' = "done"
            /\ UNCHANGED <<stream, good>>
    /\ UNCHANGED <<slamVars, configExists, configFile, rosLog>>
    /\ UNCHANGED mainVars

\* the line and first token of the iteration about to run
NextLine == getline(stream)
FirstTok == parseTokenFromString(NextLine.s, <<>>)

\* mutant of emptyLine: a line that starts with a space counts as empty
emptyLine_orLeadingSpace(s) == IF s = <<>> THEN TRUE ELSE s[1] = SP

\* lines 62-65: s.empty(), the test that makes the loop pass over a line
emptyLine(s) == s = <<>>

\* lines 57-73: one iteration that reads an empty line
ReadEmpty ==
    /\ ppc = "loop" /\ good
    /\ emptyLine(NextLine.s)
    /\ stream' = NextLine.rest
    /\ good' = NextLine.good
    /\ UNCHANGED <<slamVars, configExists, configFile, hasStereo, hasIMU, cameraNs,
                   imuTopicName, ppc, ret, rosLog>>
    /\ UNCHANGED mainVars

\* an iteration that reads a non-empty line consumes it from the stream
ReadLine ==
    /\ ppc = "loop" /\ good
    /\ ~emptyLine(NextLine.s)
    /\ stream' = NextLine.rest
    /\ good' = NextLine.good

\* one iteration that reads a stereo declaration
ReadStereo ==
    /\ ReadLine
    /\ iequals(FirstTok.token, KwStereo)
    /\ Apply(stereoBranch(ParseState, FirstTok.s))
    /\ UNCHANGED <<slamVars, configExists, configFile>>
    /\ UNCHANGED mainVars

\* one iteration that reads a mono declaration
ReadMono ==
    /\ ReadLine
    /\ iequals(FirstTok.token, KwMono)
    /\ Apply(monoBranch(ParseState, FirstTok.s))
    /\ UNCHANGED <<slamVars, configExists, configFile>>
    /\ UNCHANGED mainVars

\* one iteration that reads an imu declaration
ReadImu ==
    /\ ReadLine
    /\ iequals(FirstTok.token, KwImu)
    /\ Apply(imuBranch(ParseState, FirstTok.s))
    /\ UNCHANGED <<slamVars, configExists, configFile>>
    /\ UNCHANGED mainVars

\* one iteration that reads a line of any other form
ReadUnknown ==
    /\ ReadLine
    /\ ~iequals(FirstTok.token, KwStereo)
    /\ ~iequals(FirstTok.token, KwMono)
    /\ ~iequals(FirstTok.token, KwImu)
    /\ Apply(unknownBranch(ParseState, FirstTok.s))
    /\ UNCHANGED <<slamVars, configExists, configFile>>
    /\ UNCHANGED mainVars

\* lines 134-139: the stream is exhausted
ParseFinish ==
    /\ ppc = "loop" /\ ~good
    /\ ret' = parseResult(hasStereo, hasIMU)
    /\ ppc' = "done"
    /\ UNCHANGED <<slamVars, configExists, configFile, stream, good, hasStereo, hasIMU,
                   cameraNs, imuTopicName, rosLog>>
    /\ UNCHANGED mainVars

ParseStep ==
    \/ ParseOpen
    \/ ReadEmpty
    \/ ReadStereo
    \/ ReadMono
    \/ ReadImu
    \/ ReadUnknown
    \/ ParseFinish

\* identifiers of the store's entities; they are stable and never reused
KfIds == 1..MaxKeyframes
LmIds == 1..MaxLandmarks

\* the store with no keyframe and no landmark
EmptyStore ==
    [ kfs     |-> {},
      lms     |-> {},
      kfObs   |-> [k \in KfIds |-> {}],
      lmObs   |-> [l \in LmIds |-> {}],
      frozen  |-> {},
      kfPose  |-> [k \in KfIds |-> 0],
      nextKf  |-> 1,
      nextLm  |-> 1 ]

\* no eviction has happened
NoEviction == [victim |-> 0, released |-> {}, kept |-> {}, stillObserved |-> {}]

\* the orchestrator before its first frame, the queues empty
OrchIdle ==
    /\ orchState = "UNINITIALIZED"
    /\ initFrames = 0
    /\ relocFailures = 0
    /\ nPromoted = 0
    /\ baQueue = <<>>
    /\ loopQueue = <<>>
    /\ baSeen = <<>>
    /\ loopSeen = <<>>
    /\ loopDropped = <<>>
    /\ stopping = FALSE

\* the back-end before its first keyframe
SlamIdle ==
    /\ store = EmptyStore
    /\ window = <<>>
    /\ corrections = 0
    /\ lastEvict = NoEviction
    /\ OrchIdle

\* the back-end is not part of the calibration node
SlamAbsent ==
    /\ SlamIdle
    /\ windowBound = 1
    /\ evictPolicy = "freeze"
    /\ retryBudget = 1

\* main's variables before it has done anything
MainIdle ==
    /\ pc = "parse"
    /\ rosOk = TRUE
    /\ nCams = 0
    /\ bagOpened = FALSE
    /\ camInfoTopicNames = <<>>
    /\ camImageTopicNames = <<>>
    /\ init = {}
    /\ cameras = <<>>
    /\ camPose = <<>>
    /\ camSet = <<>>
    /\ sc = "null"
    /\ nCallbacks = 0
    /\ imuBuffer = <<>>
    /\ tuples = <<>>
    /\ processed = <<>>
    /\ nPublished = 0
    /\ nImu = 0
    /\ ub = FALSE
    /\ scRun = [called |-> FALSE, readIntermediateData |-> FALSE]
    /\ calibWritten = FALSE
    /\ infoRequests = 0
    /\ posesWritten = FALSE
    /\ unmatched = {}

\* the state at the call of parseConfigFile, but for the arguments
ParseEntry ==
    /\ stream = <<>>
    /\ good = FALSE
    /\ hasStereo = FALSE
    /\ hasIMU = FALSE
    /\ ppc = "entry"
    /\ ret = "none"
    /\ rosLog = <<>>

\* parseConfigFile as a function of its inputs: any file, any prior contents
\* of the out-parameters
ParseInit ==
    /\ configExists \in BOOLEAN
    /\ configFile \in ConfigFiles
    /\ \E pr \in PriorContents :
          /\ cameraNs = pr.cameraNs
          /\ imuTopicName = pr.imuTopicName
    /\ ParseEntry
    /\ readIntermediateData = FALSE
    /\ MainIdle
    /\ SlamAbsent

ParseNext == ParseStep

SpecParse == ParseInit /\ [][ParseNext]_vars


\* ------------------------------------------------------------------------
\* main
\* ------------------------------------------------------------------------

N_CAMERAS == 4
IMU_BUFFER_MAX == 50
SYNC_QUEUE_SIZE == 5

\* the header stamps of the bag's image and IMU messages, and the camera
\* poses of its camera-info messages
Stamps == {1, 2}
Poses == {0, 1}

\* camera poses are modelled by the group of integers under addition:
\* the identity is 0, the inverse is negation, the product is the sum
IdentityPose == 0
invertHomogeneousTransform(H) == 0 - H
ComposePose(A, B) == A + B

NullCamera == [valid |-> FALSE, cameraType |-> ""]
NewCamera  == [valid |-> TRUE, cameraType |-> ""]

InfoSuffix  == <<"/camera_info">>
ImageSuffix == <<"/image_raw">>

RECURSIVE nCamsOf(_)
\* lines 246-250: the camera count
nCamsOf(groups) ==
    IF groups = <<>> THEN 0 ELSE Len(Head(groups)) + nCamsOf(Tail(groups))

RECURSIVE Flatten(_)
Flatten(groups) ==
    IF groups = <<>> THEN <<>> ELSE Head(groups) \o Flatten(Tail(groups))

\* lines 265-274: a topic per camera, in configuration order
topicTable(groups, suffix) ==
    [k \in 1..Len(Flatten(groups)) |-> Flatten(groups)[k] \o suffix]

Range(f) == {f[x] : x \in DOMAIN f}

\* lines 276-281: the topics the bag view is restricted to
Topics == Range(camInfoTopicNames) \cup Range(camImageTopicNames) \cup {imuTopicName}

\* the messages the view may yield next: on each topic a message of the
\* type the topic is read as, or one of another type ("Other"), for which
\* every m.instantiate<T>() of the loop is null
BagMessages ==
    {[topic |-> tp, type |-> "CameraInfo", stamp |-> 0, pose |-> p] :
        tp \in Range(camInfoTopicNames), p \in Poses}
    \cup {[topic |-> tp, type |-> "Image", stamp |-> s, pose |-> IdentityPose] :
        tp \in Range(camImageTopicNames), s \in Stamps}
    \cup {[topic |-> imuTopicName, type |-> "Imu", stamp |-> s, pose |-> IdentityPose] :
        s \in Stamps}
    \cup {[topic |-> tp, type |-> "Other", stamp |-> 0, pose |-> IdentityPose] :
        tp \in Topics}

\* the poses readFromTextFile may load: any pose for camera 0, the others
\* displaced from it
IntermediatePoses(n) == {[c \in 0..(n - 1) |-> p + c + 1] : p \in Poses}

\* mutant of configRejected: the result of parseConfigFile is ignored
configRejected_never(r) == FALSE

\* line 240: the test of parseConfigFile's result
configRejected(r) == ~r

\* lines 240-244: leave with status 1 on a rejected configuration
CheckConfig ==
    /\ pc = "parse" /\ ppc = "done"
    /\ IF configRejected(ret)
       THEN /\ rosLog' = Append(rosLog, ErrConfig)
            /\ pc' = "exit1"
       ELSE /\ pc' = "openBag"
            /\ UNCHANGED rosLog
    /\ UNCHANGED <<slamVars, configExists, configFile, stream, good, hasStereo, hasIMU,
                   cameraNs, imuTopicName, ppc, ret>>
    /\ UNCHANGED <<readIntermediateData, rosOk, nCams, bagOpened,
                   camInfoTopicNames, camImageTopicNames, init, cameras, camPose,
                   camSet, sc, nCallbacks, imuBuffer, tuples, processed,
                   nPublished, nImu, ub, scRun, calibWritten, infoRequests,
                   posesWritten, unmatched>>

\* lines 246-263: count the cameras, create the camera system, open the bag
OpenBag ==
    /\ pc = "openBag"
    /\ nCams' = nCamsOf(cameraNs)
    /\ camPose' = [c \in 0..(nCamsOf(cameraNs) - 1) |-> IdentityPose]
    /\ camSet' = [c \in 0..(nCamsOf(cameraNs) - 1) |-> NullCamera]
    /\ \E opens \in BOOLEAN :
          IF opens
          THEN /\ bagOpened' = TRUE
               /\ pc' = "setup"
               /\ UNCHANGED rosLog
          ELSE /\ rosLog' = Append(rosLog, ErrBag)
               /\ pc' = "exit1"
               /\ UNCHANGED bagOpened
    /\ UNCHANGED <<slamVars, configExists, configFile, stream, good, hasStereo, hasIMU,
                   cameraNs, imuTopicName, ppc, ret>>
    /\ UNCHANGED <<readIntermediateData, rosOk, camInfoTopicNames,
                   camImageTopicNames, init, cameras, sc, nCallbacks, imuBuffer,
                   tuples, processed, nPublished, nImu, ub, scRun, calibWritten,
                   infoRequests, posesWritten, unmatched>>

\* lines 265-326: the topic tables, the image subscribers and the
\* synchronizer over imageSubs.at(0..3), which throws std::out_of_range out
\* of main when there are fewer than 4 cameras; the intermediate extrinsics
Setup ==
    /\ pc = "setup"
    /\ camInfoTopicNames' = topicTable(cameraNs, InfoSuffix)
    /\ camImageTopicNames' = topicTable(cameraNs, ImageSuffix)
    /\ cameras' = [c \in 0..(nCams - 1) |-> NullCamera]
    /\ tuples' = [s \in Stamps |-> {}]
    /\ IF nCams < N_CAMERAS
       THEN /\ pc' = "terminated"
            /\ UNCHANGED <<camPose, rosLog>>
       ELSE IF readIntermediateData
       THEN \E loaded \in {<<>>} \cup IntermediatePoses(nCams) :
               IF loaded = <<>>
               THEN /\ rosLog' = Append(rosLog, ErrInterm)
                    /\ pc' = "exit1"
                    /\ UNCHANGED camPose
               ELSE /\ camPose' = loaded
                    /\ pc' = "replay"
                    /\ UNCHANGED rosLog
       ELSE /\ pc' = "replay"
            /\ UNCHANGED <<camPose, rosLog>>
    /\ UNCHANGED <<slamVars, configExists, configFile, stream, good, hasStereo, hasIMU,
                   cameraNs, imuTopicName, ppc, ret>>
    /\ UNCHANGED <<readIntermediateData, rosOk, nCams, bagOpened, init, camSet,
                   sc, nCallbacks, imuBuffer, processed, nPublished, nImu, ub,
                   scRun, calibWritten, infoRequests, posesWritten,
                   unmatched>>

SetMin(S) == CHOOSE x \in S : \A y \in S : x <= y
SetMax(S) == CHOOSE x \in S : \A y \in S : x >= y

\* lines 338-340 and 416-418: the first of the N_CAMERAS table entries that
\* equals the topic, -1 when none does
firstIndex(table, topic) ==
    LET hits == {c \in 0..(N_CAMERAS - 1) : table[c + 1] = topic}
    IN  IF hits = {} THEN 0 - 1 ELSE SetMin(hits)

\* cameras.at(k)->cameraType() = ty; through a null pointer it is undefined
setCameraType(c, ty) == IF c.valid THEN [c EXCEPT !.cameraType = ty] ELSE c

RECURSIVE registerGroups(_, _, _)
\* lines 366-393: tag, re-pose and register the cameras group by group;
\* st = [cameras, camPose, camSet, ub], ub set by a null camera dereferenced
registerGroups(groups, mark, st) ==
    IF groups = <<>> THEN st
    ELSE
      LET g == Head(groups)
          st1 ==
            IF Len(g) = 2
            THEN LET H == ComposePose(invertHomogeneousTransform(st.camPose[mark]),
                                      st.camPose[mark + 1])
                     cams == [st.cameras EXCEPT
                                ![mark] = setCameraType(@, "stereo"),
                                ![mark + 1] = setCameraType(@, "stereo")]
                 IN  [cameras |-> cams,
                      camPose |-> [st.camPose EXCEPT ![mark] = IdentityPose,
                                                      ![mark + 1] = H],
                      camSet  |-> [st.camSet EXCEPT ![mark] = cams[mark],
                                                    ![mark + 1] = cams[mark + 1]],
                      ub      |-> \/ st.ub
                                  \/ ~st.cameras[mark].valid
                                  \/ ~st.cameras[mark + 1].valid]
            ELSE LET cams == [st.cameras EXCEPT ![mark] = setCameraType(@, "mono")]
                 IN  [cameras |-> cams,
                      camPose |-> [st.camPose EXCEPT ![mark] = IdentityPose],
                      camSet  |-> [st.camSet EXCEPT ![mark] = cams[mark]],
                      ub      |-> st.ub \/ ~st.cameras[mark].valid]
      IN  registerGroups(Tail(groups), mark + Len(g), st1)

\* mutant of initPending: the phase ends with the first camera initialized
initPending_untilFirst(bits) == bits = {}

\* line 336: the test that selects the initialization phase
initPending(bits) == Cardinality(bits) < N_CAMERAS

\* mutant of alreadyInitialized: every camera-info message initializes
alreadyInitialized_never(bits, c) == FALSE

\* line 342: the camera of this topic is initialized already
alreadyInitialized(bits, c) == c \in bits

\* mutant of stopsAfterInit: visual odometry runs with intermediate data too
stopsAfterInit_never(rid) == FALSE

\* line 411: with intermediate data the replay stops after initialization
stopsAfterInit(rid) == rid

\* lines 336-408: a message handled while fewer than N_CAMERAS cameras are
\* initialized.  A camera-info message on the topic of a camera not yet
\* initialized creates the camera; the message that completes the set
\* registers the groups, constructs sc and registers voCallback.
HandleInit ==
    /\ pc = "replay" /\ rosOk
    /\ initPending(init)
    /\ \E m \in BagMessages :
        LET c     == firstIndex(camInfoTopicNames, m.topic)
            hit   == c # 0 - 1 /\ ~alreadyInitialized(init, c) /\ m.type = "CameraInfo"
            init1 == IF hit THEN init \cup {c} ELSE init
            cams1 == IF hit THEN [cameras EXCEPT ![c] = NewCamera] ELSE cameras
            pose1 == IF hit /\ ~readIntermediateData
                     THEN [camPose EXCEPT ![c] = m.pose] ELSE camPose
            done  == Cardinality(init1) = N_CAMERAS
            reg   == registerGroups(cameraNs, 0,
                        [cameras |-> cams1, camPose |-> pose1,
                         camSet |-> camSet, ub |-> FALSE])
        IN  /\ init' = init1
            /\ IF ~done
               THEN /\ cameras' = cams1
                    /\ camPose' = pose1
                    /\ UNCHANGED <<camSet, sc, nCallbacks, ub, pc, rosLog>>
               ELSE /\ cameras' = reg.cameras
                    /\ camPose' = reg.camPose
                    /\ camSet' = reg.camSet
                    /\ ub' = (ub \/ reg.ub)
                    /\ \E crash \in (IF reg.ub THEN BOOLEAN ELSE {FALSE}),
                          scInitOk \in BOOLEAN :
                          IF crash
                          THEN /\ pc' = "terminated"
                               /\ UNCHANGED <<sc, nCallbacks, rosLog>>
                          ELSE IF ~scInitOk
                          THEN /\ sc' = "constructed"
                               /\ rosLog' = Append(rosLog, ErrScInit)
                               /\ pc' = "exit1"
                               /\ UNCHANGED nCallbacks
                          ELSE /\ sc' = "ready"
                               /\ nCallbacks' = nCallbacks + 1
                               /\ UNCHANGED <<pc, rosLog>>
    /\ UNCHANGED <<slamVars, configExists, configFile, stream, good, hasStereo, hasIMU,
                   cameraNs, imuTopicName, ppc, ret>>
    /\ UNCHANGED <<readIntermediateData, rosOk, nCams, bagOpened,
                   camInfoTopicNames, camImageTopicNames, imuBuffer, tuples,
                   processed, nPublished, nImu, scRun, calibWritten,
                   infoRequests, posesWritten, unmatched>>

\* mutant of voCallback: the most recent IMU message, whatever its stamp
voCallback_latestImu(stamp, buf, st, cvOk) ==
    IF buf = <<>> THEN [st EXCEPT !.log = Append(@, WarnNoImu),
                                  !.unmatched = @ \cup {stamp}]
    ELSE IF ~cvOk THEN [st EXCEPT !.log = Append(@, ErrCvBridge)]
    ELSE [st EXCEPT !.processed = Append(@, [stamp |-> stamp, imu |-> buf[Len(buf)]])]

\* lines 142-192: voCallback on a complete image set; st = [tuples,
\* processed, log, unmatched].  The most recent buffered IMU message with the images'
\* stamp goes to processFrames with them; without one the set is dropped.
voCallback(stamp, buf, st, cvOk) ==
    LET same == {k \in 1..Len(buf) : buf[k].stamp = stamp}
    IN  IF same = {} THEN [st EXCEPT !.log = Append(@, WarnNoImu),
                                     !.unmatched = @ \cup {stamp}]
        ELSE IF ~cvOk THEN [st EXCEPT !.log = Append(@, ErrCvBridge)]
        ELSE [st EXCEPT !.processed =
                 Append(@, [stamp |-> stamp, imu |-> buf[SetMax(same)]])]

RECURSIVE trimTuples(_)
\* message_filters::TimeSynchronizer: at most SYNC_QUEUE_SIZE incomplete
\* sets are kept, the oldest are dropped
trimTuples(tp) ==
    LET live == {s \in DOMAIN tp : tp[s] # {}}
    IN  IF Cardinality(live) > SYNC_QUEUE_SIZE
        THEN trimTuples([tp EXCEPT ![SetMin(live)] = {}])
        ELSE tp

\* lines 298-305, 423: imageSubs.at(c)->newMessage(img) enters the image in
\* the synchronizer's set for its stamp; a set complete for all N_CAMERAS
\* inputs is passed to the registered callbacks and erased together with
\* every older set
syncAdd(c, stamp, buf, st, cvOk, callbacks) ==
    LET t1   == [st.tuples EXCEPT ![stamp] = @ \cup {c}]
        full == t1[stamp] = 0..(N_CAMERAS - 1)
        st1  == IF full /\ callbacks > 0 THEN voCallback(stamp, buf, st, cvOk) ELSE st
        t2   == IF full THEN [s \in DOMAIN t1 |-> IF s <= stamp THEN {} ELSE t1[s]]
                ELSE t1
    IN  [st1 EXCEPT !.tuples = trimTuples(t2)]

RECURSIVE forwardImage(_, _, _, _, _, _)
\* lines 416-427: every one of the first N_CAMERAS image topics equal to the
\* message's topic gets the image, if it instantiates as one
forwardImage(c, m, buf, st, cvOk, callbacks) ==
    IF c = N_CAMERAS THEN st
    ELSE IF m.topic = camImageTopicNames[c + 1] /\ m.type = "Image"
    THEN forwardImage(c + 1, m, buf, syncAdd(c, m.stamp, buf, st, cvOk, callbacks),
                      cvOk, callbacks)
    ELSE forwardImage(c + 1, m, buf, st, cvOk, callbacks)

\* mutant of bufferImu: at the bound the newest message is the one removed
bufferImu_popBack(buf, m, id) ==
    IF m.topic = imuTopicName /\ m.type = "Imu"
    THEN LET b == Append(buf, [stamp |-> m.stamp, id |-> id])
         IN  IF Len(b) > IMU_BUFFER_MAX THEN SubSeq(b, 1, IMU_BUFFER_MAX) ELSE b
    ELSE buf

\* lines 429-440: an IMU message is appended, the buffer cut to its last
\* IMU_BUFFER_MAX messages
bufferImu(buf, m, id) ==
    IF m.topic = imuTopicName /\ m.type = "Imu"
    THEN LET b == Append(buf, [stamp |-> m.stamp, id |-> id])
         IN  IF Len(b) > IMU_BUFFER_MAX
             THEN SubSeq(b, Len(b) - IMU_BUFFER_MAX + 1, Len(b)) ELSE b
    ELSE buf

\* lines 409-441: a message handled once the N_CAMERAS cameras are
\* initialized, visual odometry running
HandleFrame ==
    /\ pc = "replay" /\ rosOk
    /\ ~initPending(init)
    /\ ~stopsAfterInit(readIntermediateData)
    /\ \E m \in BagMessages :
       \E cvOk \in (IF m.type = "Image" THEN BOOLEAN ELSE {TRUE}) :
        LET st   == forwardImage(0, m, imuBuffer,
                       [tuples |-> tuples, processed |-> processed, log |-> rosLog,
                        unmatched |-> unmatched],
                       cvOk, nCallbacks)
            pubs == Cardinality({c \in 0..(N_CAMERAS - 1) :
                                    m.topic = camImageTopicNames[c + 1]})
            buf  == bufferImu(imuBuffer, m, nImu + 1)
        IN  /\ nPublished + pubs <= MaxImages
            /\ buf # imuBuffer => nImu < MaxImu
            /\ tuples' = st.tuples
            /\ processed' = st.processed
            /\ rosLog' = st.log
            /\ unmatched' = st.unmatched
            /\ nPublished' = nPublished + pubs
            /\ imuBuffer' = buf
            /\ nImu' = IF buf # imuBuffer THEN nImu + 1 ELSE nImu
    /\ UNCHANGED <<slamVars, configExists, configFile, stream, good, hasStereo, hasIMU,
                   cameraNs, imuTopicName, ppc, ret>>
    /\ UNCHANGED <<pc, readIntermediateData, rosOk, nCams, bagOpened,
                   camInfoTopicNames, camImageTopicNames, init, cameras, camPose,
                   camSet, sc, nCallbacks, ub, scRun, calibWritten, infoRequests,
                   posesWritten>>

\* lines 411-414: with intermediate data the first message after
\* initialization ends the replay
BreakIntermediate ==
    /\ pc = "replay" /\ rosOk
    /\ ~initPending(init)
    /\ stopsAfterInit(readIntermediateData)
    /\ pc' = "close"
    /\ UNCHANGED <<parseVars, slamVars>>
    /\ UNCHANGED <<readIntermediateData, rosOk, nCams, bagOpened,
                   camInfoTopicNames, camImageTopicNames, init, cameras, camPose,
                   camSet, sc, nCallbacks, imuBuffer, tuples, processed,
                   nPublished, nImu, ub, scRun, calibWritten, infoRequests,
                   posesWritten, unmatched>>

\* lines 329-334, 442: the loop ends because the view is exhausted, or
\* because a shutdown request has made ros::ok() false (seen at the next
\* message, or by the test that follows the loop)
ReplayEnds ==
    /\ pc = "replay"
    /\ pc' = "close"
    /\ \E ok \in BOOLEAN : rosOk' = ok
    /\ UNCHANGED <<parseVars, slamVars>>
    /\ UNCHANGED <<readIntermediateData, nCams, bagOpened,
                   camInfoTopicNames, camImageTopicNames, init, cameras, camPose,
                   camSet, sc, nCallbacks, imuBuffer, tuples, processed,
                   nPublished, nImu, ub, scRun, calibWritten, infoRequests,
                   posesWritten, unmatched>>

\* lines 444-450: close the bag; leave with status 1 after a shutdown
CloseBag ==
    /\ pc = "close"
    /\ IF ~rosOk
       THEN /\ rosLog' = Append(rosLog, ErrAborted)
            /\ pc' = "exit1"
       ELSE /\ pc' = "run"
            /\ UNCHANGED rosLog
    /\ UNCHANGED <<slamVars, configExists, configFile, stream, good, hasStereo, hasIMU,
                   cameraNs, imuTopicName, ppc, ret>>
    /\ UNCHANGED <<readIntermediateData, rosOk, nCams, bagOpened,
                   camInfoTopicNames, camImageTopicNames, init, cameras, camPose,
                   camSet, sc, nCallbacks, imuBuffer, tuples, processed,
                   nPublished, nImu, ub, scRun, calibWritten, infoRequests,
                   posesWritten, unmatched>>

\* an operation with undefined behaviour either ends the process or lets it
\* go on to position next
Undefined(next) ==
    /\ ub' = TRUE
    /\ pc' \in {"terminated", next}

\* lines 452-459: sc->run; sc is still null when the replay ended before the
\* N_CAMERAS cameras were initialized
RunCalibration ==
    /\ pc = "run"
    /\ scRun' = [called |-> TRUE, readIntermediateData |-> readIntermediateData]
    /\ IF sc = "null"
       THEN Undefined("write")
       ELSE pc' = "write" /\ UNCHANGED ub
    /\ UNCHANGED <<parseVars, slamVars>>
    /\ UNCHANGED <<readIntermediateData, rosOk, nCams, bagOpened,
                   camInfoTopicNames, camImageTopicNames, init, cameras, camPose,
                   camSet, sc, nCallbacks, imuBuffer, tuples, processed,
                   nPublished, nImu, calibWritten, infoRequests, posesWritten,
                   unmatched>>

\* lines 461-470: write the calibration files, then print every camera's
\* name and pose through cameraSystem->getCamera(i)
WriteCalibration ==
    /\ pc = "write"
    /\ calibWritten' = TRUE
    /\ IF \E c \in 0..(nCams - 1) : ~camSet[c].valid
       THEN Undefined("setInfo")
       ELSE pc' = "setInfo" /\ UNCHANGED ub
    /\ UNCHANGED <<parseVars, slamVars>>
    /\ UNCHANGED <<readIntermediateData, rosOk, nCams, bagOpened,
                   camInfoTopicNames, camImageTopicNames, init, cameras, camPose,
                   camSet, sc, nCallbacks, imuBuffer, tuples, processed,
                   nPublished, nImu, scRun, infoRequests, posesWritten,
                   unmatched>>

\* lines 472-519: one SetCameraInfo request per camera-info topic
SendCameraInfo ==
    /\ pc = "setInfo"
    /\ infoRequests' = Len(camInfoTopicNames)
    /\ IF \E c \in 0..(Len(camInfoTopicNames) - 1) : ~camSet[c].valid
       THEN Undefined("poses")
       ELSE pc' = "poses" /\ UNCHANGED ub
    /\ UNCHANGED <<parseVars, slamVars>>
    /\ UNCHANGED <<readIntermediateData, rosOk, nCams, bagOpened,
                   camInfoTopicNames, camImageTopicNames, init, cameras, camPose,
                   camSet, sc, nCallbacks, imuBuffer, tuples, processed,
                   nPublished, nImu, scRun, calibWritten, posesWritten,
                   unmatched>>

\* lines 521-524: write the poses and return 0
WritePoses ==
    /\ pc = "poses"
    /\ posesWritten' = TRUE
    /\ IF sc = "null"
       THEN Undefined("exit0")
       ELSE pc' = "exit0" /\ UNCHANGED ub
    /\ UNCHANGED <<parseVars, slamVars>>
    /\ UNCHANGED <<readIntermediateData, rosOk, nCams, bagOpened,
                   camInfoTopicNames, camImageTopicNames, init, cameras, camPose,
                   camSet, sc, nCallbacks, imuBuffer, tuples, processed,
                   nPublished, nImu, scRun, calibWritten, infoRequests,
                   unmatched>>

\* the configuration files main is run on: the two-stereo rig, rigs with
\* mono cameras, with fewer and with more than N_CAMERAS cameras, with a
\* topic named twice, and files parseConfigFile rejects
Line(toks) == Join(toks, SP)
StereoAB == Line(<<KwStereo, <<"a">>, <<"b">>>>)
StereoCD == Line(<<<<"S","t","e","r","e","o">>, <<"c">>, <<"d">>>>)
ImuI     == Line(<<KwImu, <<"i">>>>)

MainConfigFiles ==
    { FileText(<<StereoAB, StereoCD, ImuI>>, TRUE),
      FileText(<<Line(<<KwMono, <<"c">>>>), StereoAB, ImuI,
                 Line(<<KwMono, <<"d">>>>)>>, FALSE),
      FileText(<<StereoAB, ImuI>>, TRUE),
      FileText(<<ImuI, StereoAB, StereoCD, Line(<<KwMono, <<"e">>>>)>>, TRUE),
      FileText(<<Line(<<KwStereo, <<"a">>>>), StereoCD, ImuI>>, TRUE),
      FileText(<<StereoAB, Line(<<KwMono, <<"c">>>>)>>, TRUE),
      FileText(<<StereoAB, ImuI, Line(<<<<"I","M","U">>, <<"j">>>>), StereoCD>>, TRUE),
      FileText(<<StereoAB, Line(<<<<"f","o","o">>, <<"a">>>>), ImuI>>, TRUE),
      FileText(<<StereoAB, Line(<<KwMono, <<>>>>), ImuI>>, TRUE),
      <<>> }

\* main, from the call of parseConfigFile on
MainInit ==
    /\ configExists \in BOOLEAN
    /\ configFile \in MainConfigFiles
    /\ cameraNs = <<>>
    /\ imuTopicName = <<>>
    /\ ParseEntry
    /\ readIntermediateData \in BOOLEAN
    /\ MainIdle
    /\ SlamAbsent

Next ==
    \/ ParseStep
    \/ CheckConfig
    \/ OpenBag
    \/ Setup
    \/ HandleInit
    \/ HandleFrame
    \/ BreakIntermediate
    \/ ReplayEnds
    \/ CloseBag
    \/ RunCalibration
    \/ WriteCalibration
    \/ SendCameraInfo
    \/ WritePoses

Spec == MainInit /\ [][Next]_vars

\* ------------------------------------------------------------------------
\* The replay of a bag with a long run of IMU messages, from the point
\* where the cameras of the two-stereo rig are initialized
\* ------------------------------------------------------------------------

\* the configuration of the two-stereo rig
StandardConfig == FileText(<<StereoAB, StereoCD, ImuI>>, TRUE)

\* the stamp of the n-th IMU message after the first of the run
ImuRunStamp(n) == (n % 2) + 1

\* lines 204-408 done: the state of main on StandardConfig once the message
\* that completes the initialization is handled, for any camera-info poses
ImuReplayInit ==
    /\ configExists = TRUE
    /\ configFile = StandardConfig
    /\ stream = <<>>
    /\ good = FALSE
    /\ hasStereo = TRUE
    /\ hasIMU = TRUE
    /\ cameraNs = << << <<"a">>, <<"b">> >>, << <<"c">>, <<"d">> >> >>
    /\ imuTopicName = <<"i">>
    /\ ppc = "done"
    /\ ret = TRUE
    /\ rosLog = <<>>
    /\ readIntermediateData = FALSE
    /\ pc = "replay"
    /\ rosOk = TRUE
    /\ nCams = N_CAMERAS
    /\ bagOpened = TRUE
    /\ camInfoTopicNames = topicTable(cameraNs, InfoSuffix)
    /\ camImageTopicNames = topicTable(cameraNs, ImageSuffix)
    /\ init = 0..(N_CAMERAS - 1)
    /\ \E infoPose \in [0..(N_CAMERAS - 1) -> Poses] :
          LET reg == registerGroups(cameraNs, 0,
                        [cameras |-> [c \in 0..(N_CAMERAS - 1) |-> NewCamera],
                         camPose |-> infoPose,
                         camSet  |-> [c \in 0..(N_CAMERAS - 1) |-> NullCamera],
                         ub      |-> FALSE])
          IN  /\ cameras = reg.cameras
              /\ camPose = reg.camPose
              /\ camSet = reg.camSet
    /\ sc = "ready"
    /\ nCallbacks = 1
    /\ imuBuffer = <<>>
    /\ tuples = [s \in Stamps |-> {}]
    /\ processed = <<>>
    /\ nPublished = 0
    /\ nImu = 0
    /\ ub = FALSE
    /\ scRun = [called |-> FALSE, readIntermediateData |-> FALSE]
    /\ calibWritten = FALSE
    /\ infoRequests = 0
    /\ posesWritten = FALSE
    /\ unmatched = {}
    /\ SlamAbsent

\* lines 409-441 on the next IMU message of the run
HandleImu ==
    /\ pc = "replay" /\ rosOk
    /\ ~initPending(init)
    /\ ~stopsAfterInit(readIntermediateData)
    /\ nImu < MaxImuRun
    /\ LET m  == [topic |-> imuTopicName, type |-> "Imu",
                  stamp |-> ImuRunStamp(nImu), pose |-> IdentityPose]
           st == forwardImage(0, m, imuBuffer,
                     [tuples |-> tuples, processed |-> processed, log |-> rosLog,
                        unmatched |-> unmatched],
                     TRUE, nCallbacks)
       IN  /\ tuples' = st.tuples
           /\ processed' = st.processed
           /\ rosLog' = st.log
           /\ unmatched' = st.unmatched
           /\ imuBuffer' = bufferImu(imuBuffer, m, nImu + 1)
           /\ nImu' = nImu + 1
    /\ UNCHANGED <<slamVars, configExists, configFile, stream, good, hasStereo, hasIMU,
                   cameraNs, imuTopicName, ppc, ret>>
    /\ UNCHANGED <<pc, readIntermediateData, rosOk, nCams, bagOpened,
                   camInfoTopicNames, camImageTopicNames, init, cameras, camPose,
                   camSet, sc, nCallbacks, nPublished, ub, scRun, calibWritten,
                   infoRequests, posesWritten>>

ImuNext ==
    \/ HandleImu
    \/ ReplayEnds
    \/ CloseBag
    \/ RunCalibration
    \/ WriteCalibration
    \/ SendCameraInfo
    \/ WritePoses

SpecImu == ImuReplayInit /\ [][ImuNext]_vars

\* ------------------------------------------------------------------------
\* The SLAM back-end (gcam_slam): the keyframe / landmark store and the
\* windowed bundle adjuster, after sections 3, 4.1, 4.2, 4.5 and 8 of the
\* specification
\* ------------------------------------------------------------------------

\* the keyframes of a window
Members(win) == {win[i] : i \in 1..Len(win)}

\* the landmarks observed by some keyframe of a window
WindowLandmarks(s, win) == UNION {s.kfObs[k] : k \in Members(win)}

\* a variant that records the keyframe's observations on its side only
StoreAddKeyframe_oneWay(s, K, matched) ==
    [s EXCEPT !.kfs = @ \cup {K},
              !.kfObs[K] = matched,
              !.nextKf = @ + 1]

\* Store: create keyframe K observing the landmarks it matched; each
\* landmark's observer set gains K
StoreAddKeyframe(s, K, matched) ==
    [s EXCEPT !.kfs = @ \cup {K},
              !.kfObs[K] = matched,
              !.lmObs = [l \in LmIds |-> IF l \in matched THEN @[l] \cup {K}
                                                         ELSE @[l]],
              !.nextKf = @ + 1]

\* Store: create landmark L triangulated from keyframes K and partner
StoreAddLandmark(s, L, K, partner) ==
    [s EXCEPT !.lms = @ \cup {L},
              !.lmObs[L] = {K, partner},
              !.kfObs = [k \in KfIds |-> IF k \in {K, partner} THEN @[k] \cup {L}
                                                              ELSE @[k]],
              !.nextLm = @ + 1]

\* a variant that leaves the removed landmarks in the keyframes' observations
StoreRemoveLandmarks_dangling(s, D) ==
    [s EXCEPT !.lms = @ \ D,
              !.lmObs = [l \in LmIds |-> IF l \in D THEN {} ELSE @[l]]]

\* Store: remove the landmarks D, detaching them from every keyframe
StoreRemoveLandmarks(s, D) ==
    [s EXCEPT !.lms = @ \ D,
              !.lmObs = [l \in LmIds |-> IF l \in D THEN {} ELSE @[l]],
              !.kfObs = [k \in KfIds |-> @[k] \ D]]

\* Store: freeze the landmarks D; they stay in the store
StoreFreezeLandmarks(s, D) == [s EXCEPT !.frozen = @ \cup D]

\* a variant that counts every landmark of the victim as its own
UniqueLandmarks_all(s, victim, rest) == s.kfObs[victim]

\* the victim's landmarks that are observed nowhere else in the window
UniqueLandmarks(s, victim, rest) ==
    {l \in s.kfObs[victim] : \A k \in Members(rest) : l \notin s.kfObs[k]}

\* a variant that evicts nothing
Evict_none(s, win, policy, last) == [store |-> s, window |-> win, lastEvict |-> last]

\* Evict: the oldest keyframe leaves the window and stays in the store; its
\* unique landmarks are frozen or discarded, as configured
Evict(s, win, policy, last) ==
    LET victim == Head(win)
        rest   == Tail(win)
        unique == UniqueLandmarks(s, victim, rest)
    IN  [ store     |-> IF policy = "freeze" THEN StoreFreezeLandmarks(s, unique)
                                             ELSE StoreRemoveLandmarks(s, unique),
          window    |-> rest,
          lastEvict |-> [ victim        |-> victim,
                          released      |-> unique,
                          kept          |-> s.kfObs[victim] \ unique,
                          stillObserved |-> WindowLandmarks(s, rest) ] ]

\* a triangulation candidate passes when its parallax exceeds the minimum
\* and its depth is positive
CandidateAccepted(cand) == cand.parallaxOk /\ cand.depthPositive

\* no triangulation candidate
NoCandidate == [partner |-> 0, parallaxOk |-> FALSE, depthPositive |-> FALSE]

\* the candidates a new keyframe can bring: none, or one with a keyframe of
\* the window
Candidates(win) ==
    {NoCandidate}
    \cup [partner : Members(win), parallaxOk : BOOLEAN, depthPositive : BOOLEAN]

\* Admit: the keyframe enters the store and the window with its matched
\* observations, a passing candidate becomes a landmark, and the oldest
\* keyframe is evicted when the window exceeds its bound
Admit(s, win, bound, policy, last, matched, cand) ==
    LET K  == s.nextKf
        s1 == StoreAddKeyframe(s, K, matched)
        s2 == IF cand.partner # 0 /\ CandidateAccepted(cand) /\ s1.nextLm <= MaxLandmarks
              THEN StoreAddLandmark(s1, s1.nextLm, K, cand.partner)
              ELSE s1
        w1 == Append(win, K)
    IN  IF Len(w1) > bound THEN Evict(s2, w1, policy, last)
                           ELSE [store |-> s2, window |-> w1, lastEvict |-> last]

\* what the tracker can hand over with a keyframe: the landmarks of the
\* window it matched, and a triangulation candidate
Matches == SUBSET (WindowLandmarks(store, window) \ store.frozen)

\* the worker's result for one keyframe
Admitted(matched, cand) ==
    Admit(store, window, windowBound, evictPolicy, lastEvict, matched, cand)

\* a keyframe is admitted while the window has room
AdmitKeyframe ==
    /\ store.nextKf <= MaxKeyframes
    /\ Len(window) < windowBound
    /\ \E matched \in Matches, cand \in Candidates(window) :
          /\ store' = Admitted(matched, cand).store
          /\ window' = Admitted(matched, cand).window
          /\ lastEvict' = Admitted(matched, cand).lastEvict
    /\ UNCHANGED <<windowBound, evictPolicy, corrections, orchVars>>
    /\ UNCHANGED <<parseVars, mainVars>>

\* a keyframe is admitted into a full window: the oldest one is evicted
AdmitAndEvict ==
    /\ store.nextKf <= MaxKeyframes
    /\ Len(window) >= windowBound
    /\ \E matched \in Matches, cand \in Candidates(window) :
          /\ store' = Admitted(matched, cand).store
          /\ window' = Admitted(matched, cand).window
          /\ lastEvict' = Admitted(matched, cand).lastEvict
    /\ UNCHANGED <<windowBound, evictPolicy, corrections, orchVars>>
    /\ UNCHANGED <<parseVars, mainVars>>

\* the corrected poses of a pose-graph optimization, applied to the store
ApplyCorrection(s) ==
    [s EXCEPT !.kfPose = [k \in KfIds |-> IF k \in s.kfs THEN @[k] + 1 ELSE @[k]]]

\* a loop closure's pose-graph correction: poses change, the observation
\* relations and the window do not
Correct ==
    /\ corrections < MaxCorrections
    /\ store.kfs # {}
    /\ store' = ApplyCorrection(store)
    /\ corrections' = corrections + 1
    /\ UNCHANGED <<window, windowBound, evictPolicy, lastEvict, orchVars>>
    /\ UNCHANGED <<parseVars, mainVars>>

\* the back-end alone: any configured bound and eviction policy
SlamInit ==
    /\ SlamIdle
    /\ windowBound \in 1..MaxWindowBound
    /\ evictPolicy \in {"freeze", "discard"}
    /\ retryBudget = 1
    /\ configExists = FALSE
    /\ configFile = <<>>
    /\ cameraNs = <<>>
    /\ imuTopicName = <<>>
    /\ readIntermediateData = FALSE
    /\ ParseEntry
    /\ MainIdle

SlamNext ==
    \/ AdmitKeyframe
    \/ AdmitAndEvict
    \/ Correct

SpecBA == SlamInit /\ [][SlamNext]_vars

\* ------------------------------------------------------------------------
\* The SLAM back-end: the orchestrator's state machine and the queues of
\* finalized keyframes to the two background workers, after sections 4.3
\* and 5 of the specification
\* ------------------------------------------------------------------------

\* a variant without a retry budget: the first failed attempt is final
relocalizeOutcome_noRetry(found, failures, budget) ==
    IF found THEN [state |-> "TRACKING", failures |-> failures]
    ELSE [state |-> "FAILED", failures |-> failures + 1]

\* RELOCALIZING: a pose hypothesis returns to TRACKING; a failed attempt is
\* counted and the state becomes FAILED once the budget is used up
relocalizeOutcome(found, failures, budget) ==
    IF found THEN [state |-> "TRACKING", failures |-> failures]
    ELSE IF failures + 1 < budget
    THEN [state |-> "RELOCALIZING", failures |-> failures + 1]
    ELSE [state |-> "FAILED", failures |-> failures + 1]

\* the loop recognizer's queue: when it is saturated the oldest unprocessed
\* keyframe is dropped; r = [queue, dropped]
loopEnqueue(q, dropped, k) ==
    IF Len(q) >= LoopQueueCapacity
    THEN [queue   |-> Append(Tail(q), k),
          dropped |-> Append(dropped, [kf |-> Head(q), oldest |-> Head(q),
                                       saturated |-> TRUE])]
    ELSE [queue |-> Append(q, k), dropped |-> dropped]

\* a variant that treats the bundle adjuster's queue like the recognizer's
baEnqueue_dropOldest(q, k) == loopEnqueue(q, <<>>, k).queue

\* the bundle adjuster's queue: it grows, no keyframe is ever dropped
baEnqueue(q, k) == Append(q, k)

\* UNINITIALIZED: a frame either yields the initial triangulated set or is
\* accumulated; the state is FAILED after MaxInitFrames frames without one
InitFrame ==
    /\ orchState = "UNINITIALIZED" /\ ~stopping
    /\ \E triangulated \in BOOLEAN :
          IF triangulated
          THEN orchState' = "TRACKING" /\ UNCHANGED initFrames
          ELSE /\ initFrames' = initFrames + 1
               /\ orchState' = IF initFrames + 1 >= MaxInitFrames
                                THEN "FAILED" ELSE "UNINITIALIZED"
    /\ UNCHANGED <<relocFailures, retryBudget, nPromoted, baQueue, loopQueue,
                   baSeen, loopSeen, loopDropped, stopping>>
    /\ UNCHANGED <<store, window, windowBound, evictPolicy, corrections, lastEvict>>
    /\ UNCHANGED <<parseVars, mainVars>>

\* TRACKING: a frame is tracked and discarded, or tracked and promoted to a
\* keyframe that is handed to both workers, or tracking fails
TrackFrame ==
    /\ orchState = "TRACKING" /\ ~stopping
    /\ \E outcome \in {"tracked", "keyframe", "lost"} :
          IF outcome = "lost"
          THEN /\ orchState' = "RELOCALIZING"
               /\ relocFailures' = 0
               /\ UNCHANGED <<nPromoted, baQueue, loopQueue, loopDropped>>
          ELSE IF outcome = "keyframe"
          THEN /\ nPromoted < MaxKeyframes
               /\ nPromoted' = nPromoted + 1
               /\ baQueue' = baEnqueue(baQueue, nPromoted + 1)
               /\ loopQueue' = loopEnqueue(loopQueue, loopDropped, nPromoted + 1).queue
               /\ loopDropped' = loopEnqueue(loopQueue, loopDropped, nPromoted + 1).dropped
               /\ UNCHANGED <<orchState, relocFailures>>
          ELSE UNCHANGED <<orchState, relocFailures, nPromoted, baQueue, loopQueue,
                           loopDropped>>
    /\ UNCHANGED <<initFrames, retryBudget, baSeen, loopSeen, stopping>>
    /\ UNCHANGED <<store, window, windowBound, evictPolicy, corrections, lastEvict>>
    /\ UNCHANGED <<parseVars, mainVars>>

\* RELOCALIZING: one attempt of the loop recognizer against the whole store
Relocalize ==
    /\ orchState = "RELOCALIZING" /\ ~stopping
    /\ \E found \in BOOLEAN :
          /\ orchState' = relocalizeOutcome(found, relocFailures, retryBudget).state
          /\ relocFailures' = relocalizeOutcome(found, relocFailures, retryBudget).failures
    /\ UNCHANGED <<initFrames, retryBudget, nPromoted, baQueue, loopQueue,
                   baSeen, loopSeen, loopDropped, stopping>>
    /\ UNCHANGED <<store, window, windowBound, evictPolicy, corrections, lastEvict>>
    /\ UNCHANGED <<parseVars, mainVars>>

\* the bundle-adjustment worker takes the oldest keyframe of its queue and
\* admits it; it keeps draining after teardown.  The keyframes of this
\* specification carry no observations: the observation relations are
\* exercised under SpecBA.
BaWorker ==
    /\ baQueue # <<>>
    /\ store.nextKf <= MaxKeyframes
    /\ baSeen' = Append(baSeen, Head(baQueue))
    /\ baQueue' = Tail(baQueue)
    /\ store' = Admitted({}, NoCandidate).store
    /\ window' = Admitted({}, NoCandidate).window
    /\ lastEvict' = Admitted({}, NoCandidate).lastEvict
    /\ UNCHANGED <<orchState, initFrames, relocFailures, retryBudget, nPromoted,
                   loopQueue, loopSeen, loopDropped, stopping>>
    /\ UNCHANGED <<windowBound, evictPolicy, corrections>>
    /\ UNCHANGED <<parseVars, mainVars>>

\* the loop worker takes the oldest keyframe of its queue and scores it
\* against history; the correction a confirmed loop leads to is the step
\* Correct of the correction worker
LoopWorker ==
    /\ loopQueue # <<>>
    /\ loopSeen' = Append(loopSeen, Head(loopQueue))
    /\ loopQueue' = Tail(loopQueue)
    /\ UNCHANGED <<orchState, initFrames, relocFailures, retryBudget, nPromoted,
                   baQueue, baSeen, loopDropped, stopping>>
    /\ UNCHANGED <<store, window, windowBound, evictPolicy, corrections, lastEvict>>
    /\ UNCHANGED <<parseVars, mainVars>>

\* session teardown: no new frame is accepted, the workers drain their queues
Teardown ==
    /\ ~stopping
    /\ stopping' = TRUE
    /\ UNCHANGED <<orchState, initFrames, relocFailures, retryBudget, nPromoted,
                   baQueue, loopQueue, baSeen, loopSeen, loopDropped>>
    /\ UNCHANGED <<store, window, windowBound, evictPolicy, corrections, lastEvict>>
    /\ UNCHANGED <<parseVars, mainVars>>

\* the whole back-end: any configured window bound, eviction policy and
\* retry budget
PipelineInit ==
    /\ SlamIdle
    /\ windowBound \in 1..MaxWindowBound
    /\ evictPolicy \in {"freeze", "discard"}
    /\ retryBudget \in 1..MaxRetryBudget
    /\ configExists = FALSE
    /\ configFile = <<>>
    /\ cameraNs = <<>>
    /\ imuTopicName = <<>>
    /\ readIntermediateData = FALSE
    /\ ParseEntry
    /\ MainIdle

PipelineNext ==
    \/ InitFrame
    \/ TrackFrame
    \/ Relocalize
    \/ BaWorker
    \/ LoopWorker
    \/ Teardown

\* no operation blocks indefinitely (section 5): a worker with a keyframe in
\* its queue eventually takes it
SpecPipeline ==
    PipelineInit /\ [][PipelineNext]_vars /\ WF_vars(BaWorker) /\ WF_vars(LoopWorker)

\* ------------------------------------------------------------------------
\* Vocabulary of the configuration format (section 6 of the specification):
\* lines, space-delimited tokens, kinds of declaration
\* ------------------------------------------------------------------------

RECURSIVE SplitOn(_, _)
\* the pieces of s between the occurrences of c
SplitOn(s, c) ==
    IF \A i \in 1..Len(s) : s[i] # c THEN <<s>>
    ELSE LET k == CHOOSE i \in 1..Len(s) : s[i] = c /\ \A j \in 1..(i - 1) : s[j] # c
         IN  <<SubSeq(s, 1, k - 1)>> \o SplitOn(SubSeq(s, k + 1, Len(s)), c)

LinesOf(text) == SplitOn(text, NL)
TokensOf(line) == SplitOn(line, SP)

IsDecl(line, kw) == line # <<>> /\ iequals(TokensOf(line)[1], kw)
IsStereoLine(line) == IsDecl(line, KwStereo)
IsMonoLine(line)   == IsDecl(line, KwMono)
IsImuLine(line)    == IsDecl(line, KwImu)
IsUnknownLine(line) ==
    line # <<>> /\ ~IsStereoLine(line) /\ ~IsMonoLine(line) /\ ~IsImuLine(line)

CountLines(text, P(_)) == Len(SelectSeq(LinesOf(text), P))

\* the topic names a declaration needs
Required(line) == IF IsStereoLine(line) THEN 2 ELSE 1

\* the non-empty tokens after the keyword
TopicsGiven(line) == SelectSeq(Tail(TokensOf(line)), LAMBDA tk : tk # <<>>)

\* keyword and exactly the required topic names, single spaces, nothing else
WellFormedLine(line) ==
    /\ IsStereoLine(line) \/ IsMonoLine(line) \/ IsImuLine(line)
    /\ Len(TokensOf(line)) = 1 + Required(line)
    /\ \A k \in 2..Len(TokensOf(line)) : TokensOf(line)[k] # <<>>

WellFormedFile(text) ==
    \A k \in 1..Len(LinesOf(text)) :
        LinesOf(text)[k] = <<>> \/ WellFormedLine(LinesOf(text)[k])

\* the first tokens after the keyword, as many as the form requires
TopicsOf(line) ==
    SubSeq(TokensOf(line), 2, Min(Len(TokensOf(line)), 1 + Required(line)))

RECURSIVE GroupsOf(_)
\* one group per stereo or mono line, in file order
GroupsOf(lines) ==
    IF lines = <<>> THEN <<>>
    ELSE IF IsStereoLine(Head(lines)) \/ IsMonoLine(Head(lines))
         THEN <<TopicsOf(Head(lines))>> \o GroupsOf(Tail(lines))
         ELSE GroupsOf(Tail(lines))

\* the text that follows the k-th line of the file
TextAfterLine(text, k) ==
    Join(SubSeq(LinesOf(text), k + 1, Len(LinesOf(text))), NL)

\* the position of the second imu line
SecondImuLine(text) ==
    CHOOSE k \in 1..Len(LinesOf(text)) :
        /\ IsImuLine(LinesOf(text)[k])
        /\ Cardinality({j \in 1..(k - 1) : IsImuLine(LinesOf(text)[j])}) = 1

Returned == ppc = "done"

\* ------------------------------------------------------------------------
\* Properties of parseConfigFile (checked under SpecParse)
\* ------------------------------------------------------------------------

\* C1: a configuration file without an imu line or without a stereo line is
\* rejected: parseConfigFile returns false, whatever else the file holds.
C1_MissingSensorRejected ==
    (Returned /\ (CountLines(configFile, IsImuLine) = 0
                  \/ CountLines(configFile, IsStereoLine) = 0))
        => ret = FALSE

\* C1 witness: a well-formed file with a stereo and a mono line and no imu
\* line was read to its end and rejected by the final test alone.
C1_Witness ==
    /\ Returned /\ configExists /\ ~good
    /\ WellFormedFile(configFile)
    /\ CountLines(configFile, IsStereoLine) > 0
    /\ CountLines(configFile, IsMonoLine) > 0
    /\ CountLines(configFile, IsImuLine) = 0
    /\ rosLog = <<>>
    /\ ret = FALSE

\* C2: a file of well-formed stereo, mono and imu lines (and empty lines)
\* with at least one stereo line and exactly one imu line is accepted, and
\* cameraNs then holds one group per stereo line (left, right) and one per
\* mono line, in file order, whatever cameraNs held before; the camera count
\* is 2 * (stereo lines) + (mono lines).
C2_WellFormedAccepted ==
    (/\ Returned /\ configExists
     /\ WellFormedFile(configFile)
     /\ CountLines(configFile, IsStereoLine) >= 1
     /\ CountLines(configFile, IsImuLine) = 1)
        => /\ ret = TRUE
           /\ cameraNs = GroupsOf(LinesOf(configFile))
           /\ nCamsOf(cameraNs) = 2 * CountLines(configFile, IsStereoLine)
                                    + CountLines(configFile, IsMonoLine)

\* C2 witness: two stereo lines and one imu line accepted with 4 cameras and
\* two distinct groups.
C2_Witness ==
    /\ Returned /\ configExists
    /\ WellFormedFile(configFile)
    /\ CountLines(configFile, IsStereoLine) = 2
    /\ CountLines(configFile, IsImuLine) = 1
    /\ ret = TRUE
    /\ Len(cameraNs) = 2 /\ cameraNs[1] # cameraNs[2]
    /\ cameraNs[1][1] # cameraNs[1][2]
    /\ nCamsOf(cameraNs) = 4

\* C3: a file with more than one imu line is rejected, no later than at its
\* second imu line: nothing after that line is read, and when the parse got
\* that far the duplicate definition is what is reported; an accepted file
\* has exactly one imu line.
C3_DuplicateImuRejected ==
    /\ (Returned /\ configExists /\ CountLines(configFile, IsImuLine) >= 2)
          => LET after == TextAfterLine(configFile, SecondImuLine(configFile))
             IN  /\ ret = FALSE
                 /\ Len(stream) >= Len(after)
                 /\ Len(stream) = Len(after) => (stream = after /\ rosLog = <<ErrDupImu>>)
    /\ (Returned /\ ret = TRUE) => CountLines(configFile, IsImuLine) = 1

\* C3 witness: the second imu line was reached, with a declaration before the
\* first and text after the second left unread.
C3_Witness ==
    /\ Returned /\ configExists
    /\ CountLines(configFile, IsImuLine) >= 2
    /\ rosLog = <<ErrDupImu>>
    /\ ret = FALSE
    /\ stream # <<>>

\* C4: every non-empty line whose first space-delimited token is none of
\* stereo, mono, imu (in any case) makes parseConfigFile return false.
C4_UnknownLineRejected ==
    (/\ Returned /\ configExists
     /\ \E k \in 1..Len(LinesOf(configFile)) : IsUnknownLine(LinesOf(configFile)[k]))
        => ret = FALSE

\* C4 witness: an unknown sensor type was reported after a camera had been
\* recorded.
C4_Witness ==
    /\ Returned
    /\ rosLog = <<ErrUnknown>>
    /\ cameraNs # <<>>
    /\ ret = FALSE

\* C5: a declaration with fewer topic names than its form requires makes
\* parseConfigFile return false, and the topic names recorded for an
\* accepted file are the tokens that follow the keyword, each taken once.
C5_TooFewTopicsRejected ==
    /\ (/\ Returned /\ configExists
        /\ \E k \in 1..Len(LinesOf(configFile)) :
              LET line == LinesOf(configFile)[k]
              IN  /\ IsStereoLine(line) \/ IsMonoLine(line) \/ IsImuLine(line)
                  /\ Len(TopicsGiven(line)) < Required(line))
          => ret = FALSE
    /\ (Returned /\ ret = TRUE)
          => cameraNs = GroupsOf(LinesOf(configFile))


\* ------------------------------------------------------------------------
\* Properties of main's handling of the configuration (checked under Spec)
\* ------------------------------------------------------------------------

\* nothing has been produced: the bag was not opened, no image republished,
\* no frame processed, no calibration run, nothing written or requested
NoOutput ==
    /\ ~bagOpened
    /\ nPublished = 0
    /\ processed = <<>>
    /\ ~scRun.called
    /\ ~calibWritten
    /\ infoRequests = 0
    /\ ~posesWritten

\* C6: when the configuration file cannot be opened or parseConfigFile
\* returns false, main leaves with status 1 and has neither opened the bag,
\* processed a frame, run the calibration, nor written or requested anything.
C6_BadConfigAbortsBeforeOutput ==
    (Returned /\ ret = FALSE) => (pc \in {"parse", "exit1"} /\ NoOutput)

\* C6 witness: main has left with status 1 on a file that exists and was
\* rejected.
C6_Witness ==
    /\ pc = "exit1"
    /\ Returned /\ ret = FALSE
    /\ configExists
    /\ rosLog[Len(rosLog)] = ErrConfig
    /\ NoOutput

\* C7 as stated: after a duplicate imu declaration was reported the session
\* goes on, it does not abort.
C7_DuplicateImuContinues ==
    (\E k \in 1..Len(rosLog) : rosLog[k] = ErrDupImu) => pc # "exit1"

\* C7 amended: a second imu declaration is fatal.  Once main has tested the
\* result of parseConfigFile on a file with two or more imu lines it has
\* left with status 1 without any output, and when the parse got as far as
\* the second imu line the duplicate definition is the error reported.
C7_DuplicateImuFatal ==
    (/\ Returned /\ configExists
     /\ CountLines(configFile, IsImuLine) >= 2)
        => /\ ret = FALSE
           /\ pc \in {"parse", "exit1"}
           /\ NoOutput
           /\ stream = TextAfterLine(configFile, SecondImuLine(configFile))
                 => rosLog[1] = ErrDupImu

\* C7 witness: main has left with status 1 after the duplicate definition
\* was reported.
C7_Witness ==
    /\ pc = "exit1"
    /\ configExists
    /\ CountLines(configFile, IsImuLine) >= 2
    /\ rosLog = <<ErrDupImu, ErrConfig>>


\* ------------------------------------------------------------------------
\* Claims about the windowed bundle adjuster (under SpecBA)
\* ------------------------------------------------------------------------

\* C8: after any sequence of admit and evict operations the number of
\* keyframes in the window is at most the configured bound
C8_WindowBounded ==
    /\ Len(window) <= windowBound
    /\ Cardinality(Members(window)) = Len(window)
    /\ Members(window) \subseteq store.kfs

\* C8 happens: the window is full after an eviction
C8_Witness ==
    /\ lastEvict.victim # 0
    /\ Len(window) = windowBound
    /\ windowBound = MaxWindowBound

\* C9: a keyframe observes a landmark exactly when the landmark lists the
\* keyframe as an observer, and both are in the store
C9_BidirectionalConsistency ==
    \A K \in KfIds, L \in LmIds :
        /\ (L \in store.kfObs[K]) <=> (K \in store.lmObs[L])
        /\ (L \in store.kfObs[K]) => (K \in store.kfs /\ L \in store.lms)

\* C9 happens: after an admission, an eviction that discarded a landmark and
\* a correction, observations remain
C9_Witness ==
    /\ evictPolicy = "discard"
    /\ lastEvict.released # {}
    /\ corrections > 0
    /\ \E K \in store.kfs : store.kfObs[K] # {}

C11_RelocalizingUntilBudget ==
    [][ /\ (orchState = "TRACKING" /\ orchState' # "TRACKING")
            => (orchState' = "RELOCALIZING" /\ relocFailures' = 0)
        /\ (orchState = "RELOCALIZING" /\ relocFailures' # relocFailures)
            => /\ relocFailures' = relocFailures + 1
               /\ orchState' = IF relocFailures' < retryBudget
                                THEN "RELOCALIZING" ELSE "FAILED"
        /\ (orchState = "RELOCALIZING" /\ orchState' = "FAILED")
            => relocFailures' = retryBudget
        /\ (orchState = "RELOCALIZING" /\ orchState' # "RELOCALIZING"
                /\ relocFailures' = relocFailures)
            => orchState' = "TRACKING"
        /\ (orchState = "FAILED") => (orchState' = "FAILED")
        /\ (orchState' = "RELOCALIZING") => (relocFailures' < retryBudget)
      ]_vars

\* C11 happens: the budget allowed more than one attempt and all of them
\* failed
C11_Witness ==
    /\ orchState = "FAILED"
    /\ retryBudget = MaxRetryBudget
    /\ relocFailures = retryBudget
    /\ retryBudget > 1

\* every promoted keyframe is in the bundle adjuster's queue or was taken by
\* its worker, in promotion order; every promoted keyframe is in the loop
\* queue, was taken by the loop worker, or was dropped as the oldest of a
\* saturated loop queue
QueuesAccountFor ==
    /\ baSeen \o baQueue = [k \in 1..nPromoted |-> k]
    /\ Members(loopSeen) \cup Members(loopQueue)
          \cup {loopDropped[i].kf : i \in 1..Len(loopDropped)} = 1..nPromoted
    /\ Len(loopSeen) + Len(loopQueue) + Len(loopDropped) = nPromoted
    /\ \A i \in 1..Len(loopDropped) :
          loopDropped[i].saturated /\ loopDropped[i].kf = loopDropped[i].oldest
    /\ Len(loopQueue) <= LoopQueueCapacity

\* C12: under any interleaving every promoted keyframe is eventually taken
\* by the bundle-adjustment worker and none is dropped from its queue; only
\* the loop queue drops, and only its oldest keyframe when it is saturated
C12_BaSeesEveryKeyframe ==
    /\ []QueuesAccountFor
    /\ \A k \in KfIds : (k <= nPromoted) ~> (k \in Members(baSeen))

\* C12 happens: the loop queue saturated and dropped a keyframe, and the
\* bundle-adjustment worker has taken every keyframe promoted
C12_Witness ==
    /\ loopDropped # <<>>
    /\ nPromoted = MaxKeyframes
    /\ Len(baSeen) = nPromoted

\* ------------------------------------------------------------------------
\* Claims about the bag replay of main (under Spec)
\* ------------------------------------------------------------------------

\* the images held by the synchronizer
ImagesHeld ==
    {sc1 \in (DOMAIN tuples) \X (0..(N_CAMERAS - 1)) : sc1[2] \in tuples[sc1[1]]}

\* visual odometry has seen nothing
NothingForwarded ==
    /\ nPublished = 0
    /\ ImagesHeld = {}
    /\ imuBuffer = <<>>
    /\ nImu = 0
    /\ processed = <<>>

\* C13: images are forwarded, IMU messages buffered and processFrames
\* called only once the N_CAMERAS cameras are initialized, sc is constructed
\* and sc->init has succeeded; what the synchronizer and the IMU buffer hold
\* came in after that, nothing from before is kept
C13_NothingBeforeInit ==
    /\ ~NothingForwarded
          => (Cardinality(init) = N_CAMERAS /\ sc = "ready" /\ nCallbacks = 1)
    /\ Cardinality(ImagesHeld) + N_CAMERAS * Len(processed) <= nPublished
    /\ Len(imuBuffer) <= nImu

\* C13 happens: after initialization an IMU message was buffered, images
\* were forwarded and processFrames was called
C13_Witness ==
    /\ Cardinality(init) = N_CAMERAS
    /\ sc = "ready"
    /\ nPublished >= N_CAMERAS
    /\ imuBuffer # <<>>
    /\ processed # <<>>

\* C14: processFrames gets an image set only with a buffered IMU message of
\* exactly the images' stamp; a set without one is dropped with the warning,
\* processFrames is not called and the IMU buffer stays as it is
C14_ImuStampMatches ==
    [][ /\ (processed' # processed)
            => /\ Len(processed') = Len(processed) + 1
               /\ SubSeq(processed', 1, Len(processed)) = processed
               /\ processed'[Len(processed')].imu.stamp = processed'[Len(processed')].stamp
               /\ \E k \in 1..Len(imuBuffer) :
                     imuBuffer[k] = processed'[Len(processed')].imu
               /\ imuBuffer' = imuBuffer
        /\ (rosLog' = Append(rosLog, WarnNoImu))
            => /\ processed' = processed
               /\ imuBuffer' = imuBuffer
               /\ \E s \in Stamps :
                     /\ tuples[s] # {} /\ tuples'[s] = {}
                     /\ \A k \in 1..Len(imuBuffer) : imuBuffer[k].stamp # s
      ]_vars

\* C14 happens: processFrames was called with the images of one stamp while
\* the buffer held an IMU message of that stamp
C14_Witness ==
    /\ Len(processed) = 1
    /\ processed[1].imu.stamp = processed[1].stamp
    /\ \E k \in 1..Len(imuBuffer) : imuBuffer[k] = processed[1].imu

\* C16: with the intermediate option nothing is forwarded, buffered or
\* processed, the replay does not go on once the cameras are initialized,
\* and sc->run gets readIntermediateData = true
C16_IntermediateSkipsOdometry ==
    readIntermediateData
        => /\ NothingForwarded
           /\ (pc = "replay" /\ Cardinality(init) = N_CAMERAS)
                 => (ENABLED BreakIntermediate \/ ~rosOk)
           /\ scRun.called => scRun.readIntermediateData

\* C16 happens: the cameras were initialized from the bag and sc->run was
\* called with the option set
C16_Witness ==
    /\ readIntermediateData
    /\ Cardinality(init) = N_CAMERAS
    /\ sc = "ready"
    /\ scRun.called
    /\ scRun.readIntermediateData
    /\ ~ub

\* C20: during the replay a camera is initialized at most once; a message
\* that initializes no camera leaves the cameras, the poses, the init bits,
\* sc and the callbacks alone; a message that initializes a camera without
\* completing the set leaves the others alone; sc is constructed and the
\* callback registered once
C20_InitializedOnce ==
    [][ (pc = "replay")
        => /\ init \subseteq init'
           /\ Cardinality(init' \ init) <= 1
           /\ (init' = init)
                 => /\ cameras' = cameras
                    /\ camPose' = camPose
                    /\ camSet' = camSet
                    /\ sc' = sc
                    /\ nCallbacks' = nCallbacks
           /\ (init' # init /\ Cardinality(init') < N_CAMERAS)
                 => /\ \A c \in init : cameras'[c] = cameras[c] /\ camPose'[c] = camPose[c]
                    /\ camSet' = camSet
                    /\ sc' = sc
                    /\ nCallbacks' = nCallbacks
           /\ (sc # "null") => (sc' = sc /\ nCallbacks' = nCallbacks)
           /\ nCallbacks' <= 1
      ]_vars

\* C20 happens: the replay went on after the cameras were initialized
C20_Witness ==
    /\ Cardinality(init) = N_CAMERAS
    /\ sc = "ready"
    /\ nCallbacks = 1
    /\ nPublished > 0
    /\ nImu > 0

\* ------------------------------------------------------------------------
\* Claim about the IMU buffer (under SpecImu)
\* ------------------------------------------------------------------------

\* C15: the IMU buffer holds at most IMU_BUFFER_MAX messages and they are
\* the most recent ones received since initialization, in arrival order
C15_ImuBufferBounded ==
    /\ Len(imuBuffer) <= IMU_BUFFER_MAX
    /\ Len(imuBuffer) = Min(nImu, IMU_BUFFER_MAX)
    /\ \A k \in 1..Len(imuBuffer) :
          /\ imuBuffer[k].id = nImu - Len(imuBuffer) + k
          /\ imuBuffer[k].stamp = ImuRunStamp(imuBuffer[k].id - 1)

\* C15 happens: more than IMU_BUFFER_MAX messages came in and the oldest
\* ones are gone
C15_Witness ==
    /\ nImu > IMU_BUFFER_MAX + 1
    /\ Len(imuBuffer) = IMU_BUFFER_MAX
    /\ imuBuffer[1].id = nImu - IMU_BUFFER_MAX + 1
    /\ imuBuffer[Len(imuBuffer)].id = nImu

\* ------------------------------------------------------------------------
\* Claims about the cameras, their indices and sc (under Spec)
\* ------------------------------------------------------------------------

\* the index of the first camera of the g-th group of the configuration
GroupStart(groups, g) == nCamsOf(SubSeq(groups, 1, g - 1))

\* the tag of a group's line: two topics are a stereo pair, one is a mono
\* camera
TagOf(group) == IF Len(group) = 2 THEN "stereo" ELSE "mono"

\* C17: the step that completes the initialization leaves every camera of
\* every group of the configuration created, tagged after its line and
\* registered under its index in configuration order, the first camera of a
\* group at the identity pose and the second camera of a stereo group at
\* the pose it had relative to the first
C17_CamerasRegistered ==
    [][ (pc = "replay" /\ Cardinality(init) < N_CAMERAS
            /\ Cardinality(init') = N_CAMERAS)
        => \E p \in Poses :
             LET last == CHOOSE c \in init' \ init : TRUE
                 pre  == IF readIntermediateData THEN camPose
                         ELSE [camPose EXCEPT ![last] = p]
             IN  \A g \in 1..Len(cameraNs) :
                   LET mark == GroupStart(cameraNs, g)
                   IN  /\ \A j \in 0..(Len(cameraNs[g]) - 1) :
                             /\ cameras'[mark + j].valid
                             /\ cameras'[mark + j].cameraType = TagOf(cameraNs[g])
                             /\ camSet'[mark + j] = cameras'[mark + j]
                       /\ camPose'[mark] = IdentityPose
                       /\ (Len(cameraNs[g]) = 2)
                             => camPose'[mark + 1] =
                                  ComposePose(invertHomogeneousTransform(pre[mark]),
                                              pre[mark + 1])
      ]_vars

\* C18: sc->run and sc->writePosesToTextFile are reached only with sc
\* constructed and initialized
C18_ScSetWhenUsed ==
    (scRun.called \/ posesWritten) => sc = "ready"

\* C19: for every accepted configuration no per-camera index is out of
\* range (no std::out_of_range leaves main) and, once the initialization is
\* complete, every camera of the rig has been created from a camera-info
\* message
C19_IndicesInRange ==
    (Returned /\ ret = TRUE)
        => /\ ~(pc = "terminated" /\ ~ub)
           /\ (Cardinality(init) = N_CAMERAS)
                 => \A c \in DOMAIN cameras : cameras[c].valid

\* ------------------------------------------------------------------------
\* Image sets and IMU messages of one stamp
\* ------------------------------------------------------------------------

\* the stamps of the IMU messages the replay has buffered and still holds
BufferedStamps == {imuBuffer[k].stamp : k \in 1..Len(imuBuffer)}

\* the stamps of the image sets passed to sc->processFrames
ProcessedStamps == {processed[k].stamp : k \in 1..Len(processed)}

\* C21: once the replay is over, every complete set of same-stamp images
\* that was replayed after the initialization, and whose stamp is the stamp
\* of an IMU message of the bag, has been passed to processFrames, whether
\* the IMU message came before or after the images in the bag.
C21_MatchedSetsProcessed ==
    pc # "replay" =>
        \A s \in Stamps :
            (s \in unmatched /\ s \in BufferedStamps) => s \in ProcessedStamps

\* ------------------------------------------------------------------------
\* The poses of the intermediate extrinsics file
\* ------------------------------------------------------------------------

\* C22: with the intermediate option, no step of the bag replay (the
\* handling of a camera-info message, the one that completes the
\* initialization included) modifies a global camera pose: the poses
\* read from the intermediate extrinsics file before the replay are the
\* poses the camera system holds when sc->run is called.
C22_IntermediatePosesKept ==
    [][(readIntermediateData /\ pc = "replay") => camPose' = camPose]_vars

\* ------------------------------------------------------------------------
\* Empty lines of the configuration file
\* ------------------------------------------------------------------------

\* the lines of a file that hold at least one character, in order
NonEmptyLines(text) == SelectSeq(LinesOf(text), LAMBDA l : l # <<>>)

\* what parseConfigFile holds before the first line is read
NothingDeclared == [cameraNs |-> <<>>, imuTopicName |-> <<>>,
                    hasStereo |-> FALSE, hasIMU |-> FALSE]

\* what one declaration makes of the declarations before it
DeclarationOutcome(p, line) ==
    LET first == parseTokenFromString(line, <<>>)
    IN  IF iequals(first.token, KwStereo) THEN stereoBranch(p, first.s)
        ELSE IF iequals(first.token, KwMono) THEN monoBranch(p, first.s)
        ELSE IF iequals(first.token, KwImu) THEN imuBranch(p, first.s)
        ELSE unknownBranch(p, first.s)

RECURSIVE OutcomeOf(_, _)
\* the result and the out-parameters a sequence of declarations stands for:
\* they are taken in order up to the first one that is rejected
OutcomeOf(lines, p) ==
    IF lines = <<>>
    THEN [ret |-> parseResult(p.hasStereo, p.hasIMU),
          cameraNs |-> p.cameraNs, imuTopicName |-> p.imuTopicName]
    ELSE LET o == DeclarationOutcome(p, Head(lines))
         IN  IF o.fail
             THEN [ret |-> FALSE,
                   cameraNs |-> o.p.cameraNs, imuTopicName |-> o.p.imuTopicName]
             ELSE OutcomeOf(Tail(lines), o.p)

\* C23: parseConfigFile passes over empty lines: its return value and the
\* cameraNs and imuTopicName it leaves are those of the file's non-empty
\* lines taken in order, so that two files that differ only in empty lines,
\* wherever they are inserted or removed (the end of the file included),
\* give the same result and the same out-parameters.
C23_EmptyLinesSkipped ==
    (Returned /\ configExists) =>
        [ret |-> ret, cameraNs |-> cameraNs, imuTopicName |-> imuTopicName]
            = OutcomeOf(NonEmptyLines(configFile), NothingDeclared)

\* C23 happens: an accepted file with an empty line between two
\* declarations and another one at its end
C23_Witness ==
    /\ Returned /\ configExists
    /\ ret = TRUE
    /\ LET ls == LinesOf(configFile)
       IN  /\ Len(ls) >= 4
           /\ ls[1] # <<>> /\ ls[2] = <<>> /\ ls[3] # <<>>
           /\ ls[Len(ls)] = <<>>

====
